---- MODULE Spec2Model ----
(***************************************************************************)
(* A model of eyetracking.py: the client of the Mirametrix eye tracker.    *)
(*                                                                         *)
(* Text is a sequence of tokens.  A token stands for a run of characters   *)
(* that the code never inspects one by one: a tag opener such as "<REC",   *)
(* one attribute such as ID="CALIB_RESULT", the closing '>' and the        *)
(* newline.  fill_buffer only looks at the newlines and at the last        *)
(* character of a fragment, so a cut inside a token behaves as a cut at    *)
(* one of its ends.                                                        *)
(*                                                                         *)
(* Two specifications share the state:                                     *)
(*   Spec    the caller thread (start_eyetracking, stop_eyetracking) and   *)
(*           the WorkerThread objects, interleaved statement by statement; *)
(*   SpecFB  fill_buffer alone, called on arbitrary chunks.                *)
(***************************************************************************)
EXTENDS Integers, Sequences, FiniteSets, TLC

(* ------------------------------ bounds --------------------------------- *)

\* calls of start_eyetracking / stop_eyetracking the caller makes
MaxCalls == 3
\* chunks the device delivers in all (every later recv blocks)
MaxRecv == 2
\* tokens fed to fill_buffer in all, under SpecFB
MaxStream == 6
\* tokens of one chunk, under SpecFB
MaxChunkLen == 4

(* ------------------------------ tokens --------------------------------- *)

NL == "\n"
GT == ">"
TagTokens == {"<REC", "<CAL", "<ACK"}
AttrTokens == {"ID=CALIB_RESULT", "ID=ENABLE_SEND_DATA", "FPOGX=0.4"}

\* the tag name an opener token carries
TagOf(tok) ==
  CASE tok = "<REC" -> "REC"
    [] tok = "<CAL" -> "CAL"
    [] OTHER -> "ACK"

\* the attribute name and value an attribute token carries
KeyOf(tok) == IF tok = "FPOGX=0.4" THEN "FPOGX" ELSE "ID"

ValueOf(tok) ==
  CASE tok = "ID=CALIB_RESULT" -> "CALIB_RESULT"
    [] tok = "ID=ENABLE_SEND_DATA" -> "ENABLE_SEND_DATA"
    [] OTHER -> "0.4"

(* ----------------------------- fill_buffer ----------------------------- *)

\* s cut at every newline, the empty pieces kept
RECURSIVE SplitNL(_)
SplitNL(s) ==
  IF s = <<>> THEN << <<>> >>
  ELSE LET rest == SplitNL(Tail(s)) IN
       IF Head(s) = NL THEN << <<>> >> \o rest
       ELSE << <<Head(s)>> \o Head(rest) >> \o Tail(rest)

\* str.splitlines(): no empty last piece after a final newline, [] for ''
splitlines(s) ==
  LET p == SplitNL(s) IN
  IF p[Len(p)] = <<>> THEN SubSeq(p, 1, Len(p) - 1) ELSE p

\* line[-1] == '>' ; line[-1] of an empty line raises IndexError
EndsWithGT(line) == line[Len(line)] = GT

\* the for loop of fill_buffer over line_list
RECURSIVE ScanLines(_, _, _)
ScanLines(line_list, line_buffer, overflow) ==
  IF line_list = <<>>
  THEN [buf |-> line_buffer, ovf |-> overflow, err |-> FALSE]
  ELSE LET line == Head(line_list) IN
       IF line = <<>>
       THEN [buf |-> <<>>, ovf |-> overflow, err |-> TRUE]
       ELSE IF EndsWithGT(line)
            THEN ScanLines(Tail(line_list), Append(line_buffer, line), overflow)
            ELSE ScanLines(Tail(line_list), line_buffer, <<line>>)

\* fill_buffer on the chunk rx() returned, with line_overflow = overflow:
\* buf is the list returned, ovf the new line_overflow, err an IndexError
fill_buffer(overflow, partial_XML) ==
  LET line_list == splitlines(partial_XML) IN
  IF Len(overflow) > 0
  THEN IF line_list = <<>>
       THEN [buf |-> <<>>, ovf |-> overflow, err |-> TRUE]
       ELSE ScanLines([line_list EXCEPT ![1] = overflow[1] \o @], <<>>, <<>>)
  ELSE ScanLines(line_list, <<>>, overflow)

(* ------------------------------ parse_XML ------------------------------ *)

\* xmlObject.fromstring(XML) on one line: ok is FALSE for a ParseError; the
\* attributes keep their order, and a repeated attribute name is an error
fromstring(XML) ==
  LET n == Len(XML)
      attrs == IF n >= 2 THEN SubSeq(XML, 2, n - 1) ELSE <<>>
      wellFormed ==
        /\ n >= 2
        /\ XML[1] \in TagTokens
        /\ XML[n] = GT
        /\ \A i \in 1..Len(attrs) : attrs[i] \in AttrTokens
        /\ \A i, j \in 1..Len(attrs) :
             KeyOf(attrs[i]) = KeyOf(attrs[j]) => i = j
  IN IF wellFormed
     THEN [ok |-> TRUE, tag |-> TagOf(XML[1]),
           keys |-> [i \in 1..Len(attrs) |-> KeyOf(attrs[i])],
           values |-> [i \in 1..Len(attrs) |-> ValueOf(attrs[i])]]
     ELSE [ok |-> FALSE, tag |-> "", keys |-> <<>>, values |-> <<>>]

\* "ID" in keys and dict['ID'] == "CALIB_RESULT"
IsCalibResult(x) ==
  \E i \in 1..Len(x.keys) : x.keys[i] = "ID" /\ x.values[i] = "CALIB_RESULT"

\* the rows parse_XML writes for one message
HeaderRow(x) == [kind |-> "header", cells |-> x.keys]
ValuesRow(x) == [kind |-> "values", cells |-> x.values]

\* the guard of the record rows: calibrated == True and tag == "REC"
WritesRecord(isCalibrated, x) == isCalibrated /\ x.tag = "REC"

\* the rows appended to record_output for one qualifying message
RecordRows(headerDone, x) ==
  (IF headerDone THEN <<>> ELSE <<HeaderRow(x)>>) \o <<ValuesRow(x)>>

\* keys_received after the header loop: set inside the loop over the keys
KeysReceivedAfter(headerDone, x) == headerDone \/ Len(x.keys) > 0

(* --------------------------- the device's side -------------------------- *)

MsgCalibResult == <<"<CAL", "ID=CALIB_RESULT", GT>>
MsgRec == <<"<REC", "FPOGX=0.4", GT>>
MsgAck == <<"<ACK", "ID=ENABLE_SEND_DATA", GT>>
MsgGarbage == <<"FPOGX=0.4", GT>>

\* the chunks one recv may return under Spec: two whole messages; a
\* well-formed, a malformed and a well-formed one; a whole message and the
\* head of the next; the rest of a message
DeviceChunks ==
  { MsgCalibResult \o <<NL>> \o MsgRec \o <<NL>>,
    MsgRec \o <<NL>> \o MsgGarbage \o <<NL>> \o MsgRec \o <<NL>>,
    MsgAck \o <<NL>> \o <<"<REC", "FPOGX=0.4">>,
    <<GT, NL>> }

\* the commands of initialize_server, perform_calibration and parse_XML
EnableCommands ==
  << "ENABLE_SEND_DATA", "ENABLE_SEND_COUNTER", "ENABLE_SEND_EYE_LEFT",
     "ENABLE_SEND_EYE_RIGHT", "ENABLE_SEND_POG_LEFT", "ENABLE_SEND_POG_RIGHT",
     "ENABLE_SEND_POG_BEST", "ENABLE_SEND_PUPIL_LEFT", "ENABLE_SEND_PUPIL_RIGHT",
     "ENABLE_SEND_POG_FIX", "ENABLE_SEND_TIME" >>
CalibrationCommands == << "CALIBRATE_SHOW=1", "CALIBRATE_START=1" >>
HideCommand == "CALIBRATE_SHOW=0"

(* -------------------------------- state -------------------------------- *)

\* the WorkerThread objects: tracker is 1 at import, and every
\* stop_eyetracking constructs the next
Workers == 1..(MaxCalls + 1)

VARIABLES
  callerPc,            \* the statement the caller thread is at
  calls,               \* the interface calls made so far, in order
  tracker,             \* the global tracker: the current WorkerThread
  sock,                \* the global sock: "fresh" or "connected"
  sent,                \* what tx sent over the current connection
  nrecv,               \* chunks received so far
  calibrated,          \* the global calibrated
  keys_received,       \* the global keys_received
  line_overflow,       \* the global line_overflow
  record_output,       \* the three global file objects
  calibration_output,
  XML_output,
  wpc,                 \* per worker: the statement of run() it is at
  is_running,          \* per worker: self.is_running ("unset" before a write)
  lock,                \* per worker: who holds self.lock
  line_buffer,         \* per worker: what the for loop of parse_XML has left
  exc,                 \* per worker: the exception that ended its thread
  fbFed,               \* SpecFB: the chunks fed so far, concatenated
  fbOut,               \* SpecFB: the lists returned so far, concatenated
  fbErr                \* SpecFB: a call raised

sysVars == << callerPc, calls, tracker, sock, sent, nrecv, calibrated,
              keys_received, record_output, calibration_output, XML_output,
              wpc, is_running, lock, line_buffer, exc >>
fbVars == << fbFed, fbOut, fbErr >>
vars == << sysVars, line_overflow, fbVars >>

NoFile == [state |-> "undef", rows |-> <<>>]
NewFile == [state |-> "open", rows |-> <<>>]

Init ==
  /\ callerPc = "idle"
  /\ calls = <<>>
  /\ tracker = 1
  /\ sock = "fresh"
  /\ sent = <<>>
  /\ nrecv = 0
  /\ calibrated = FALSE
  /\ keys_received = FALSE
  /\ line_overflow = <<>>
  /\ record_output = NoFile
  /\ calibration_output = NoFile
  /\ XML_output = NoFile
  /\ wpc = [w \in Workers |-> "new"]
  /\ is_running = [w \in Workers |-> "unset"]
  /\ lock = [w \in Workers |-> "free"]
  /\ line_buffer = [w \in Workers |-> <<>>]
  /\ exc = [w \in Workers |-> "none"]
  /\ fbFed = <<>>
  /\ fbOut = <<>>
  /\ fbErr = FALSE

\* stop_running has returned for worker w
StopRequested(w) == w < tracker \/ (w = tracker /\ callerPc = "t403")

\* the thread of worker w was started and its run() has not returned or raised
Active(w) == wpc[w] \notin {"new", "done", "dead"}

(* ----------------------- the caller: start_eyetracking ------------------ *)

workerVars == << wpc, is_running, lock, line_buffer, exc >>
fileVars == << record_output, calibration_output, XML_output >>
parseVars == << calibrated, keys_received, line_overflow >>

\* the call, and lines 385-390: the three files are opened in 'w' mode
Start_Open ==
  /\ callerPc = "idle"
  /\ Len(calls) < MaxCalls
  /\ calls' = Append(calls, "start")
  /\ record_output' = NewFile
  /\ calibration_output' = NewFile
  /\ XML_output' = NewFile
  /\ callerPc' = "s392"
  /\ UNCHANGED << tracker, sock, sent, nrecv, parseVars, workerVars, fbVars >>

\* a start_eyetracking that calls connect() without the 'if': a failed
\* connect goes on to initialize_server()
Start_Connect_Unchecked ==
  /\ callerPc = "s392"
  /\ \E ok \in (IF sock = "fresh" THEN BOOLEAN ELSE {FALSE}) :
       IF ok
       THEN /\ sock' = "connected"
            /\ sent' = <<>>
       ELSE UNCHANGED << sock, sent >>
  /\ callerPc' = "s393"
  /\ UNCHANGED << calls, tracker, nrecv, parseVars, fileVars, workerVars, fbVars >>

\* line 392, connect(): True, or None when sock.connect raised; it raises
\* on a socket that is connected already
Start_Connect ==
  /\ callerPc = "s392"
  /\ \E ok \in (IF sock = "fresh" THEN BOOLEAN ELSE {FALSE}) :
       IF ok
       THEN /\ sock' = "connected"
            /\ sent' = <<>>
            /\ callerPc' = "s393"
       ELSE /\ callerPc' = "idle"
            /\ UNCHANGED << sock, sent >>
  /\ UNCHANGED << calls, tracker, nrecv, parseVars, fileVars, workerVars, fbVars >>

\* a start_eyetracking with lines 393 and 394 the other way round: the
\* thread is started before the enable commands are sent
Start_Initialize_ThreadFirst ==
  /\ callerPc = "s393"
  /\ wpc' = [wpc EXCEPT ![tracker] = "w348"]
  /\ sent' = sent \o EnableCommands
  /\ callerPc' = "s394"
  /\ UNCHANGED << calls, tracker, sock, nrecv, parseVars, fileVars,
                  is_running, lock, line_buffer, exc, fbVars >>

\* line 393, initialize_server(): the eleven enable commands
Start_Initialize ==
  /\ callerPc = "s393"
  /\ sent' = sent \o EnableCommands
  /\ callerPc' = "s394"
  /\ UNCHANGED << calls, tracker, sock, nrecv, parseVars, fileVars, workerVars,
                  fbVars >>

\* line 394, tracker.start(): RuntimeError for a thread started before
Start_Thread ==
  /\ callerPc = "s394"
  /\ IF wpc[tracker] = "new"
     THEN /\ wpc' = [wpc EXCEPT ![tracker] = "w348"]
          /\ callerPc' = "s395"
     ELSE /\ callerPc' = "idle"
          /\ UNCHANGED wpc
  /\ UNCHANGED << calls, tracker, sock, sent, nrecv, parseVars, fileVars,
                  is_running, lock, line_buffer, exc, fbVars >>

\* line 395, perform_calibration(): show the overlay, start the calibration
Start_Calibrate ==
  /\ callerPc = "s395"
  /\ sent' = sent \o CalibrationCommands
  /\ callerPc' = "idle"
  /\ UNCHANGED << calls, tracker, sock, nrecv, parseVars, fileVars, workerVars,
                  fbVars >>

(* ----------------------- the caller: stop_eyetracking ------------------- *)

\* the call, and line 400: calibrated = False
Stop_ResetCalibrated ==
  /\ callerPc = "idle"
  /\ Len(calls) < MaxCalls
  /\ calls' = Append(calls, "stop")
  /\ calibrated' = FALSE
  /\ callerPc' = "t340"
  /\ UNCHANGED << tracker, sock, sent, nrecv, keys_received, line_overflow,
                  fileVars, workerVars, fbVars >>

\* line 402 -> 340, stop_running: self.lock.acquire()
StopRunning_Acquire ==
  /\ callerPc = "t340"
  /\ lock[tracker] = "free"
  /\ lock' = [lock EXCEPT ![tracker] = "caller"]
  /\ callerPc' = "t341"
  /\ UNCHANGED << calls, tracker, sock, sent, nrecv, parseVars, fileVars, wpc,
                  is_running, line_buffer, exc, fbVars >>

\* lines 341-342: self.is_running = False, self.lock.release()
StopRunning_Write ==
  /\ callerPc = "t341"
  /\ is_running' = [is_running EXCEPT ![tracker] = FALSE]
  /\ lock' = [lock EXCEPT ![tracker] = "free"]
  /\ callerPc' = "t403"
  /\ UNCHANGED << calls, tracker, sock, sent, nrecv, parseVars, fileVars, wpc,
                  line_buffer, exc, fbVars >>

\* lines 403-404: tracker = WorkerThread(XML_callback), then disconnect():
\* the socket is closed and a new one made
Stop_Disconnect ==
  /\ callerPc = "t403"
  /\ tracker' = tracker + 1
  /\ sock' = "fresh"
  /\ callerPc' = "t406"
  /\ UNCHANGED << calls, sent, nrecv, parseVars, fileVars, workerVars, fbVars >>

\* line 406: record_output.close(); NameError before any start_eyetracking
Stop_CloseRecord ==
  /\ callerPc = "t406"
  /\ IF record_output.state = "undef"
     THEN /\ callerPc' = "idle"
          /\ UNCHANGED record_output
     ELSE /\ record_output' = [record_output EXCEPT !.state = "closed"]
          /\ callerPc' = "t408"
  /\ UNCHANGED << calls, tracker, sock, sent, nrecv, parseVars,
                  calibration_output, XML_output, workerVars, fbVars >>

\* lines 407-410: calibration_output.close(), twice; XML_output is declared
\* global and not closed
Stop_CloseCalibration ==
  /\ callerPc = "t408"
  /\ calibration_output' = [calibration_output EXCEPT !.state = "closed"]
  /\ callerPc' = "idle"
  /\ UNCHANGED << calls, tracker, sock, sent, nrecv, parseVars, record_output,
                  XML_output, workerVars, fbVars >>

(* ------------------------ the worker: run() ----------------------------- *)

callerVars == << callerPc, calls, tracker >>

\* an exception nothing catches ends the thread of worker w
Raise(w, e) ==
  /\ wpc' = [wpc EXCEPT ![w] = "dead"]
  /\ exc' = [exc EXCEPT ![w] = e]

Goto(w, at) ==
  /\ wpc' = [wpc EXCEPT ![w] = at]
  /\ UNCHANGED exc

\* line 348: self.is_running = True
Run_SetRunning(w) ==
  /\ wpc[w] = "w348"
  /\ is_running' = [is_running EXCEPT ![w] = TRUE]
  /\ Goto(w, "w350")
  /\ UNCHANGED << callerVars, sock, sent, nrecv, parseVars, fileVars, lock,
                  line_buffer, fbVars >>

\* line 350 -> 362 -> 238 -> 191..215: XML_callback, parse_XML, fill_buffer
\* with its rx(); recv raises on a socket that is not connected
Run_Callback(w) ==
  /\ wpc[w] = "w350"
  /\ IF sock # "connected"
     THEN /\ Raise(w, "socket.error")
          /\ UNCHANGED << nrecv, line_overflow, line_buffer >>
     ELSE /\ nrecv < MaxRecv
          /\ nrecv' = nrecv + 1
          /\ \E partial_XML \in DeviceChunks :
               LET r == fill_buffer(line_overflow, partial_XML) IN
               /\ line_overflow' = r.ovf
               /\ IF r.err
                  THEN /\ Raise(w, "IndexError")
                       /\ UNCHANGED line_buffer
                  ELSE /\ Goto(w, "w238")
                       /\ line_buffer' = [line_buffer EXCEPT ![w] = r.buf]
  /\ UNCHANGED << callerVars, sock, sent, calibrated, keys_received, fileVars,
                  is_running, lock, fbVars >>

\* lines 238-249: the next XML of the list is written to XML_output and
\* parsed; the loop is over when the list is exhausted
Parse_Next(w) ==
  /\ wpc[w] = "w238"
  /\ IF line_buffer[w] = <<>>
     THEN /\ Goto(w, "w351")
          /\ UNCHANGED XML_output
     ELSE LET XML == Head(line_buffer[w]) IN
          IF XML_output.state # "open"
          THEN /\ Raise(w, "ValueError")
               /\ UNCHANGED XML_output
          ELSE /\ XML_output' = [XML_output EXCEPT !.rows = Append(@, XML)]
               /\ IF fromstring(XML).ok
                  THEN Goto(w, "w261")
                  ELSE Raise(w, "ParseError")
  /\ UNCHANGED << callerVars, sock, sent, nrecv, parseVars, record_output,
                  calibration_output, is_running, lock, line_buffer, fbVars >>

\* lines 261-276: a CALIB_RESULT hides the overlay and sets calibrated; a
\* CAL message goes to calibration_output, header row and values row
Parse_Calibration(w) ==
  /\ wpc[w] = "w261"
  /\ LET thisXML == fromstring(Head(line_buffer[w]))
         isResult == IsCalibResult(thisXML)
         txRaises == isResult /\ sock # "connected"
         writes == ~txRaises /\ thisXML.tag = "CAL"
         writeRaises == writes /\ calibration_output.state # "open"
     IN
     /\ sent' = IF isResult /\ ~txRaises THEN Append(sent, HideCommand) ELSE sent
     /\ calibrated' = IF isResult /\ ~txRaises THEN TRUE ELSE calibrated
     /\ calibration_output' =
          IF writes /\ ~writeRaises
          THEN [calibration_output EXCEPT
                  !.rows = @ \o <<HeaderRow(thisXML), ValuesRow(thisXML)>>]
          ELSE calibration_output
     /\ IF txRaises THEN Raise(w, "socket.error")
        ELSE IF writeRaises THEN Raise(w, "ValueError")
        ELSE Goto(w, "w280")
  /\ UNCHANGED << callerVars, sock, nrecv, keys_received, line_overflow,
                  record_output, XML_output, is_running, lock, line_buffer, fbVars >>

\* lines 280-290: a REC message goes to record_output once calibrated; then
\* the for loop takes the next XML
Parse_Record(w) ==
  /\ wpc[w] = "w280"
  /\ LET thisXML == fromstring(Head(line_buffer[w])) IN
     IF WritesRecord(calibrated, thisXML)
     THEN IF record_output.state # "open"
          THEN /\ Raise(w, "ValueError")
               /\ UNCHANGED << record_output, keys_received, line_buffer >>
          ELSE /\ record_output' =
                    [record_output EXCEPT
                       !.rows = @ \o RecordRows(keys_received, thisXML)]
               /\ keys_received' = KeysReceivedAfter(keys_received, thisXML)
               /\ line_buffer' = [line_buffer EXCEPT ![w] = Tail(@)]
               /\ Goto(w, "w238")
     ELSE /\ line_buffer' = [line_buffer EXCEPT ![w] = Tail(@)]
          /\ Goto(w, "w238")
          /\ UNCHANGED << record_output, keys_received >>
  /\ UNCHANGED << callerVars, sock, sent, nrecv, calibrated, line_overflow,
                  calibration_output, XML_output, is_running, lock, fbVars >>

\* line 351: self.lock.acquire()
Run_Acquire(w) ==
  /\ wpc[w] = "w351"
  /\ lock[w] = "free"
  /\ lock' = [lock EXCEPT ![w] = "worker"]
  /\ Goto(w, "w352")
  /\ UNCHANGED << callerVars, sock, sent, nrecv, parseVars, fileVars,
                  is_running, line_buffer, fbVars >>

\* lines 352-358: is_running is read, the lock released, the loop left or not
Run_Check(w) ==
  /\ wpc[w] = "w352"
  /\ lock' = [lock EXCEPT ![w] = "free"]
  /\ Goto(w, IF is_running[w] = TRUE THEN "w350" ELSE "done")
  /\ UNCHANGED << callerVars, sock, sent, nrecv, parseVars, fileVars,
                  is_running, line_buffer, fbVars >>

Caller ==
  \/ Start_Open \/ Start_Connect \/ Start_Initialize \/ Start_Thread
  \/ Start_Calibrate
  \/ Stop_ResetCalibrated \/ StopRunning_Acquire \/ StopRunning_Write
  \/ Stop_Disconnect \/ Stop_CloseRecord
  \/ Stop_CloseCalibration

Worker(w) ==
  \/ Run_SetRunning(w) \/ Run_Callback(w) \/ Parse_Next(w)
  \/ Parse_Calibration(w) \/ Parse_Record(w)
  \/ Run_Acquire(w) \/ Run_Check(w)

Next == Caller \/ \E w \in Workers : Worker(w)

Spec == Init /\ [][Next]_vars

(* ------------------------- fill_buffer on its own ----------------------- *)

FBAlphabet == {"<REC", GT, NL}

\* the chunks of at most MaxChunkLen tokens; recv returns the empty one
\* once the device has closed the connection
FBChunks ==
  UNION { [1..n -> FBAlphabet] : n \in 0..MaxChunkLen }

\* one call of fill_buffer, rx() returning partial_XML
FB_Call ==
  /\ ~fbErr
  /\ \E partial_XML \in FBChunks :
       /\ Len(fbFed) + Len(partial_XML) <= MaxStream
       /\ LET r == fill_buffer(line_overflow, partial_XML) IN
          /\ line_overflow' = r.ovf
          /\ fbErr' = r.err
          /\ fbOut' = fbOut \o r.buf
          /\ fbFed' = fbFed \o partial_XML
  /\ UNCHANGED sysVars

NextFB == FB_Call

SpecFB == Init /\ [][NextFB]_vars

(* ------------------------------- claims -------------------------------- *)

Last(s) == s[Len(s)]

\* a sequence of messages, each some tokens closed by its only '>' and
\* followed by a newline
WellFormedStream(s) ==
  \/ s = <<>>
  \/ /\ Last(s) = NL
     /\ \A k \in 1..Len(splitlines(s)) :
          LET line == splitlines(s)[k] IN
          /\ Len(line) >= 2
          /\ Last(line) = GT
          /\ \A i \in 1..(Len(line) - 1) : line[i] # GT

\* C1. Reassembly completeness: whenever the chunks fed so far make up a
\* sequence of '>'-closed, newline-terminated messages, however they were
\* cut, no call has raised and the lists returned, one after the other, are
\* the list one fill_buffer call returns on the whole concatenation.
C1_ReassemblyComplete ==
  WellFormedStream(fbFed) =>
    /\ ~fbErr
    /\ fbOut = fill_buffer(<<>>, fbFed).buf

\* C2. Stop safety: once stop_running has returned for a worker, every
\* check of is_running that worker makes finds it False, so the loop exits at
\* its first check and starts no parse_XML call after it.
C2_StopSafety ==
  \A w \in Workers :
    (StopRequested(w) /\ wpc[w] = "w352") => is_running[w] = FALSE

\* C3. Lock discipline: a thread that is at a read or a write of is_running
\* (line 341 for the caller, lines 348 and 352 for the worker) holds the
\* worker's lock.
C3_LockDiscipline ==
  /\ callerPc = "t341" => lock[tracker] = "caller"
  /\ \A w \in Workers : wpc[w] \in {"w348", "w352"} => lock[w] = "worker"

\* C4. Teardown after exit: while a worker thread is still in its loop, no
\* output file and no socket has been closed under it and stop_eyetracking
\* has not reset calibrated.
C4_TeardownAfterExit ==
  \A w \in Workers :
    Active(w) =>
      /\ record_output.state = "open"
      /\ calibration_output.state = "open"
      /\ XML_output.state = "open"
      /\ sock = "connected"
      /\ callerPc \notin {"t340", "t341", "t403", "t406", "t408"}

\* worker w has met, after a well-formed message and with a well-formed one
\* next in its list, a line that does not parse: the line is still the head
\* of its list and is the last one written to XML_output
MetMalformedBetween(w) ==
  LET rows == XML_output.rows IN
  /\ wpc[w] # "w238"
  /\ Len(line_buffer[w]) >= 2
  /\ ~fromstring(line_buffer[w][1]).ok
  /\ fromstring(line_buffer[w][2]).ok
  /\ Len(rows) >= 2
  /\ rows[Len(rows)] = line_buffer[w][1]
  /\ fromstring(rows[Len(rows) - 1]).ok

\* C5. Malformed message containment: a line that does not parse as XML,
\* met between two well-formed messages, does not end the worker's loop (so
\* that the message after it is still processed).
C5_MalformedContained ==
  \A w \in Workers : MetMalformedBetween(w) => wpc[w] # "dead"

\* C6. One worker at a time: at most one worker thread is in its loop.
C6_SingleWorker ==
  Cardinality({w \in Workers : Active(w)}) <= 1

\* the values rows among rows
ValuesRowsOf(rows) == {i \in 1..Len(rows) : rows[i].kind = "values"}

\* C7. Discard-before-calibration: the step that ends the processing of a
\* message (lines 280-290) adds exactly one values row to record_output when
\* the message is a REC and calibrated is true, and leaves the rows of
\* record_output as they are otherwise.
C7_DiscardBeforeCalibration ==
  [][\A w \in Workers :
       (wpc[w] = "w280" /\ wpc'[w] # "w280") =>
         IF calibrated /\ fromstring(Head(line_buffer[w])).tag = "REC"
         THEN /\ Len(record_output'.rows) > Len(record_output.rows)
              /\ SubSeq(record_output'.rows, 1, Len(record_output.rows))
                   = record_output.rows
              /\ Cardinality(ValuesRowsOf(record_output'.rows))
                   = Cardinality(ValuesRowsOf(record_output.rows)) + 1
         ELSE record_output'.rows = record_output.rows]_vars

\* the calls so far are start, stop, start, stop, ...: whole sessions
AlternatingCalls ==
  \A i \in 1..Len(calls) : calls[i] = (IF i % 2 = 1 THEN "start" ELSE "stop")

\* C8. Header once per session: over whole sessions, with no thread of an
\* earlier session left and a CALIB_RESULT received over the connection of
\* the session, the worker of the session writes the header row and the
\* values row when it writes to the empty record file, and one values row
\* when it writes to a record file that holds rows.
C8_HeaderOncePerSession ==
  [][\A w \in Workers :
       ( /\ AlternatingCalls
         /\ w = tracker
         /\ \A v \in Workers : v # w => ~Active(v)
         /\ \E i \in 1..Len(sent) : sent[i] = HideCommand
         /\ wpc[w] = "w280"
         /\ wpc'[w] # "w280"
         /\ record_output'.rows # record_output.rows )
       => LET thisXML == fromstring(Head(line_buffer[w])) IN
          record_output'.rows =
            IF record_output.rows = <<>>
            THEN <<HeaderRow(thisXML), ValuesRow(thisXML)>>
            ELSE Append(record_output.rows, ValuesRow(thisXML))]_vars

\* a session is on: the last call is a start_eyetracking that is past its
\* connect() and the connection is up, so that sent holds what this session
\* sent
InSession ==
  /\ calls # <<>>
  /\ Last(calls) = "start"
  /\ callerPc # "s392"
  /\ sock = "connected"

\* C9. Calibration monotonicity: within a session calibrated is true exactly
\* from the first CALIB_RESULT message processed in it on (the message whose
\* processing sent the hide command).
C9_CalibrationMonotonic ==
  InSession =>
    (calibrated <=> \E i \in 1..Len(sent) : sent[i] = HideCommand)

\* C10. Calibration reset on stop: once stop_eyetracking has returned and
\* every worker thread that was started has left its loop at the check of
\* is_running, calibrated is false.
C10_ResetOnStop ==
  ( /\ callerPc = "idle"
    /\ calls # <<>>
    /\ Last(calls) = "stop"
    /\ \A w \in Workers : wpc[w] \in {"new", "done"} )
  => calibrated = FALSE

\* the chunk the fill_buffer call of a step was given, and the list it
\* returned
FedChunk == SubSeq(fbFed', Len(fbFed) + 1, Len(fbFed'))
Returned == SubSeq(fbOut', Len(fbOut) + 1, Len(fbOut'))

\* a fragment that is not empty and does not end in '>'
Incomplete(line) == line # <<>> /\ Last(line) # GT

\* C11. Tail containment: a call on a chunk whose last newline-split
\* fragment is non-empty and does not end in '>' returns normally, does not
\* return that tail (with the pending tail before it when the chunk is one
\* fragment) and leaves it as the single element of line_overflow; a call
\* with a tail pending on a chunk whose first fragment ends in '>' returns
\* the pending tail joined with that fragment as its first message, that
\* message once, and a one-fragment chunk leaves line_overflow empty.
C11_TailContainment ==
  [][LET line_list == splitlines(FedChunk)
         n == Len(line_list)
         pending == line_overflow
     IN
     /\ (n >= 1 /\ Incomplete(line_list[n])) =>
          LET tail == IF n = 1 /\ pending # <<>>
                      THEN pending[1] \o line_list[1]
                      ELSE line_list[n]
          IN /\ ~fbErr'
             /\ line_overflow' = <<tail>>
             /\ \A i \in 1..Len(Returned) : Returned[i] # tail
     /\ (pending # <<>> /\ n >= 1 /\ line_list[1] # <<>>
           /\ Last(line_list[1]) = GT) =>
          /\ ~fbErr'
          /\ Len(Returned) >= 1
          /\ Returned[1] = pending[1] \o line_list[1]
          /\ n = 1 => (Len(Returned) = 1 /\ line_overflow' = <<>>)]_vars

\* C12. stop_eyetracking closes the three files: once a stop_eyetracking
\* that follows some start_eyetracking has returned, XML_output,
\* calibration_output and record_output are closed.
C12_StopClosesSinks ==
  ( /\ callerPc = "idle"
    /\ calls # <<>>
    /\ Last(calls) = "stop"
    /\ \E i \in 1..Len(calls) : calls[i] = "start" )
  => /\ XML_output.state = "closed"
     /\ calibration_output.state = "closed"
     /\ record_output.state = "closed"

\* the commands in sent that start_eyetracking sent: parse_XML sends the
\* hide command and nothing else
IsStartCommand(c) == c # HideCommand
StartSent == SelectSeq(sent, IsStartCommand)

AllOpen ==
  /\ record_output.state = "open"
  /\ calibration_output.state = "open"
  /\ XML_output.state = "open"

\* C13. Session start ordering: start_eyetracking is at connect() with the
\* three files open; past a connect() that succeeded it is at
\* initialize_server() with nothing sent and the worker not started, at
\* tracker.start() with the eleven enable commands sent, in order, and the
\* worker not started, at perform_calibration() with the worker started, and
\* it returns with the two calibration commands sent after the enable
\* commands; the files are open all along, every command is sent over a
\* connected socket, and no worker has left "new" before the files exist.
C13_StartOrdering ==
  /\ [](/\ callerPc = "s392" => AllOpen
        /\ callerPc = "s393" =>
             /\ AllOpen /\ sock = "connected"
             /\ StartSent = <<>>
             /\ wpc[tracker] = "new"
        /\ callerPc = "s394" =>
             /\ AllOpen /\ sock = "connected"
             /\ StartSent = EnableCommands
             /\ wpc[tracker] = "new"
        /\ callerPc = "s395" =>
             /\ AllOpen /\ sock = "connected"
             /\ StartSent = EnableCommands
             /\ wpc[tracker] # "new"
        /\ (callerPc = "idle" /\ calls # <<>> /\ Last(calls) = "start"
              /\ sock = "connected") =>
             /\ AllOpen
             /\ StartSent = EnableCommands \o CalibrationCommands
             /\ wpc[tracker] # "new"
        /\ \A w \in Workers :
             wpc[w] # "new" => /\ record_output.state # "undef"
                               /\ calibration_output.state # "undef"
                               /\ XML_output.state # "undef")
  /\ [][Len(sent') > Len(sent) => sock = "connected"]_vars

\* start_eyetracking has returned from a session it started: connected, the
\* enable and calibration commands sent, the worker in its loop
C13_SessionStarted ==
  /\ callerPc = "idle"
  /\ calls # <<>>
  /\ Last(calls) = "start"
  /\ sock = "connected"
  /\ StartSent = EnableCommands \o CalibrationCommands
  /\ Active(tracker)

\* C14. Connection failure: the step in which connect() fails (the socket
\* is left as it was) ends start_eyetracking: the caller is back at idle,
\* nothing was sent, no thread was started and there is no second connect();
\* initialize_server(), tracker.start() and perform_calibration() are only
\* ever reached over a connected socket, and after a start_eyetracking that
\* returned without a connection the session's worker is unstarted.
C14_ConnectionFailure ==
  /\ [][(callerPc = "s392" /\ callerPc' # "s392" /\ sock' = sock) =>
          /\ callerPc' = "idle"
          /\ sent' = sent
          /\ wpc' = wpc
          /\ tracker' = tracker]_vars
  /\ [](/\ callerPc \in {"s393", "s394", "s395"} => sock = "connected"
        /\ (callerPc = "idle" /\ calls # <<>> /\ Last(calls) = "start"
              /\ sock = "fresh") => wpc[tracker] = "new")

\* the first start_eyetracking has returned after a connect() that failed
C14_StartFailed ==
  /\ callerPc = "idle"
  /\ calls = <<"start">>
  /\ sock = "fresh"
  /\ sent = <<>>
  /\ wpc[tracker] = "new"

\* C15. Double start is without effect: a start_eyetracking called after a
\* start_eyetracking, with the worker of the session in its loop, leaves the
\* three files and their rows, the socket, the workers and tracker as they
\* were at the call.
C15_DoubleStartNoEffect ==
  [][( /\ callerPc = "idle"
       /\ callerPc' = "s392"
       /\ calls # <<>>
       /\ Last(calls) = "start"
       /\ Active(tracker) )
     => UNCHANGED << fileVars, sock, wpc, tracker >>]_vars

\* C16. The calibration transition fires at most once per session: among
\* the commands sent over the connection of a session the hide command
\* (CALIBRATE_SHOW, STATE 0) occurs at most once, however many CALIB_RESULT
\* messages were processed.
C16_HideAtMostOnce ==
  Cardinality({i \in 1..Len(sent) : sent[i] = HideCommand}) <= 1

\* C17. The calibration file is written once per session: the file opened
\* by a start_eyetracking holds no row, or one header row followed by one
\* values row, however many CAL messages were processed.
C17_CalibrationWrittenOnce ==
  LET rows == calibration_output.rows IN
  \/ rows = <<>>
  \/ /\ Len(rows) = 2
     /\ rows[1].kind = "header"
     /\ rows[2].kind = "values"

\* the lines, each followed by a newline
RECURSIVE JoinNL(_)
JoinNL(lines) ==
  IF lines = <<>> THEN <<>> ELSE Head(lines) \o <<NL>> \o JoinNL(Tail(lines))

NotEmpty(line) == line # <<>>

\* C18. Empty fragments do not crash reassembly: a call on a chunk whose
\* newline split holds an empty fragment returns normally, and returns the
\* list and leaves the line_overflow of a call on the same chunk with the
\* empty fragments taken out (nothing returned and line_overflow as it was
\* when every fragment is empty).
C18_EmptyFragmentsTolerated ==
  [][LET line_list == splitlines(FedChunk)
         others == SelectSeq(line_list, NotEmpty)
         r == IF others = <<>>
              THEN [buf |-> <<>>, ovf |-> line_overflow, err |-> FALSE]
              ELSE fill_buffer(line_overflow, JoinNL(others))
     IN (\E k \in 1..Len(line_list) : line_list[k] = <<>>) =>
          /\ ~fbErr'
          /\ Returned = r.buf
          /\ line_overflow' = r.ovf]_vars

\* C19. OverflowTail: line_overflow holds no element or one, and a call of
\* fill_buffer that starts with a tail pending prepends it to the first
\* fragment of its chunk and clears it: what the call returns and leaves in
\* line_overflow is what the loop gives on the fragments with the tail
\* joined to the first, from an empty line_overflow.
C19_OverflowTail ==
  /\ [](Len(line_overflow) <= 1)
  /\ [][((fbFed' # fbFed \/ fbErr' # fbErr) /\ line_overflow # <<>>) =>
          LET line_list == splitlines(FedChunk) IN
          /\ line_list # <<>>
          /\ LET r == ScanLines(
                        [line_list EXCEPT ![1] = line_overflow[1] \o @],
                        <<>>, <<>>)
             IN /\ Returned = r.buf
                /\ line_overflow' = r.ovf]_vars

\* a fragment that ends in '>'
Complete(line) == line # <<>> /\ Last(line) = GT

\* C20. Drop-earliest-incomplete: a call on a chunk that splits into two or
\* more non-empty fragments not ending in '>' returns normally and leaves the
\* last of them as the only element of line_overflow; it returns the
\* fragments that end in '>' (the first with the pending tail before it), in
\* their order, and nothing else, so that the earlier incomplete fragments
\* are neither returned nor kept.
C20_DropEarliestIncomplete ==
  [][LET line_list == splitlines(FedChunk)
         inc == {k \in 1..Len(line_list) : Incomplete(line_list[k])}
         joined == IF line_overflow # <<>> /\ line_list # <<>>
                   THEN [line_list EXCEPT ![1] = line_overflow[1] \o @]
                   ELSE line_list
     IN Cardinality(inc) >= 2 =>
          /\ ~fbErr'
          /\ line_overflow' =
               <<line_list[CHOOSE k \in inc : \A j \in inc : j <= k]>>
          /\ Returned = SelectSeq(joined, Complete)]_vars

====
